---- MODULE Spec2Model ----
(***************************************************************************)
(* The ION system heap (drivers/staging/android/ion/ion_system_heap.c):    *)
(* the pooled, largest-available-first allocator, its free path and its    *)
(* shrinker, as a state machine.  Calls are interleaved at the granularity *)
(* of one page-pool operation; the page pool itself (ion_page_pool.c) and  *)
(* the kernel helpers the heap calls are modelled by their contracts.      *)
(*                                                                         *)
(* Indices into orders[] are 1-based here (C: 0-based).                    *)
(***************************************************************************)
EXTENDS Integers, Sequences, FiniteSets, TLC

\* ------------------------------------------------------------ bounds
\* log2 of the page size (the page size is a configuration constant).
PAGE_SHIFT == 2
\* page runs the general allocator can have handed out at any one time
MaxRuns == 2
\* the same, where the pages' history is recorded
IsoRuns == 2
\* the same, when calls run concurrently
ConcRuns == 2
\* largest nr_to_scan the shrinker is called with
MaxScan == 2
\* the same, when calls run concurrently
ConcScan == 1
\* calls in flight at any one time, when calls run concurrently
MaxCalls == 2
\* largest length, in pages, asked of the contiguous heap
MaxContigPages == 5
\* allocate calls of a behaviour of the round-trip specification
AllocsRT == 3
\* largest totalram_pages of the specification of the size guard
MaxRam == 4

\* ------------------------------------------------------------ constants
PAGE_SIZE == 2 ^ PAGE_SHIFT

PAGE_ALIGN(x) == ((x + PAGE_SIZE - 1) \div PAGE_SIZE) * PAGE_SIZE

GFP_HIGHUSER == {"__GFP_WAIT", "__GFP_IO", "__GFP_FS", "__GFP_HARDWALL", "__GFP_HIGHMEM"}

high_order_gfp_flags ==
    (GFP_HIGHUSER \cup {"__GFP_ZERO", "__GFP_NOWARN", "__GFP_NORETRY"}) \ {"__GFP_WAIT"}

low_order_gfp_flags == GFP_HIGHUSER \cup {"__GFP_ZERO", "__GFP_NOWARN"}

orders == <<8, 4, 0>>

num_orders == Len(orders)

\* Faulty variant: the loop of line 37 stops one entry short.
order_to_index_short(order) ==
    IF \E i \in 1..(num_orders - 1) : orders[i] = order
    THEN CHOOSE i \in 1..(num_orders - 1) : orders[i] = order
    ELSE 0

\* The index of an order in orders[]; 0 stands for the BUG() of an unknown order.
order_to_index(order) ==
    IF \E i \in 1..num_orders : orders[i] = order
    THEN CHOOSE i \in 1..num_orders : orders[i] = order
    ELSE 0

order_to_size(order) == PAGE_SIZE * (2 ^ order)

\* The smallest order whose run covers len bytes.
get_order(len) ==
    CHOOSE o \in 0..orders[1] :
        /\ PAGE_SIZE * (2 ^ o) >= len
        /\ \A q \in 0..(o - 1) : PAGE_SIZE * (2 ^ q) < len

RECURSIVE SumSeq(_)
SumSeq(q) == IF q = <<>> THEN 0 ELSE Head(q) + SumSeq(Tail(q))

Bufs == {1, 2}

Shrinkers == {1}

\* ------------------------------------------------------------ state
VARIABLES
    totalram_pages, \* pages of system memory
    ghost,          \* which history is recorded in this behaviour
    quota,          \* allocate calls still to come; -1: any number
    mem,            \* the general allocator and the pages' state
    sys_heap,       \* the heap: its two banks of pools
    buf,            \* the buffers and the allocate/free call on each
    shr,            \* the shrinker calls
    rt,             \* the last completed free, until other traffic
    boot,           \* the construction and the destruction of the heap
    contig          \* the contiguous heap: its buffer and the call on it

vars == <<totalram_pages, ghost, quota, mem, sys_heap, buf, shr, rt, boot, contig>>

NoHist == [from |-> "none", sys |-> FALSE]

\* A page run owned by the general allocator: content and order are unknown.
MemInit(n) ==
    [free  |-> [r \in 1..n |-> 1],
     order |-> [r \in 1..n |-> 0],
     zero  |-> [r \in 1..n |-> FALSE],
     hist  |-> [r \in 1..n |-> NoHist]]

ion_page_pool_create(gfp_mask, order) ==
    [gfp_mask |-> gfp_mask, order |-> order, high_items |-> <<>>, low_items |-> <<>>]

ion_system_heap_create_pools ==
    [i \in 1..num_orders |->
        ion_page_pool_create(
            IF orders[i] # 0 THEN high_order_gfp_flags ELSE low_order_gfp_flags,
            orders[i])]

\* Ghost: the resident totals at the instants of the shrink call in progress
\* (all) and of its inventory pass (inv); empty when none is recorded.
NoSeen == [all |-> {}, inv |-> {}]

ion_system_heap_create ==
    [uncached_pools |-> ion_system_heap_create_pools,
     cached_pools   |-> ion_system_heap_create_pools,
     seen           |-> NoSeen]

BufNone ==
    [st |-> "none", size |-> 0, cached |-> FALSE, shrinker |-> FALSE,
     size_remaining |-> 0, max_order |-> 0, i |-> 0, oi |-> 0,
     pages |-> <<>>, sg |-> <<>>, fi |-> 0, ret |-> "none",
     acq |-> <<>>, back |-> <<>>, nsys |-> 0, rtc |-> "no", wrote |-> FALSE,
     tried |-> <<>>, skipped |-> <<>>]

ShrIdle ==
    [pc |-> "idle", nr_to_scan |-> 0, nr_freed |-> 0, nr_total |-> 0,
     k |-> 0, ret |-> 0, n0 |-> 0, c0 |-> <<>>, asks |-> <<>>]

NoRt == [valid |-> FALSE, size |-> 0, cached |-> FALSE, greedy |-> FALSE]

\* No pool is alive and none was destroyed.
NoPools == [bank \in {"uncached", "cached"} |-> [i \in 1..num_orders |-> 0]]

\* The heap is constructed: ion_system_heap_create has returned it.
AllPools == [bank \in {"uncached", "cached"} |-> [i \in 1..num_orders |-> 1]]

\* ion_system_heap_create before its first statement.
BootStart ==
    [pc |-> "heap", bank |-> "none", i |-> 0, ret |-> "none",
     pools |-> NoPools, created |-> NoPools, destroyed |-> NoPools]

\* ion_system_heap_create after its successful return.
BootDone ==
    [pc |-> "done", bank |-> "none", i |-> 0, ret |-> "none",
     pools |-> AllPools, created |-> AllPools, destroyed |-> NoPools]

\* The contiguous heap has no buffer.
ContigNone ==
    [st |-> "none", len |-> 0, size |-> 0, order |-> 0, i |-> 0, released |-> <<>>,
     sg |-> <<>>, ret |-> "none"]

InitWith(ram, n, g, q) ==
    /\ totalram_pages \in ram
    /\ ghost = g
    /\ quota = q
    /\ mem = MemInit(n)
    /\ sys_heap = ion_system_heap_create
    /\ buf = [b \in Bufs |-> BufNone]
    /\ shr = [s \in Shrinkers |-> ShrIdle]
    /\ rt = NoRt
    /\ boot = BootDone
    /\ contig = ContigNone


\* ------------------------------------------------------------ the general allocator
\* The runs the general allocator can hand out.
FreeRuns(m) == {r \in DOMAIN m.free : m.free[r] > 0}

\* The run alloc_pages hands out: the first free one.
PickRun(m) == CHOOSE r \in FreeRuns(m) : \A q \in FreeRuns(m) : r <= q

\* alloc_pages(gfp_mask, order) handing out run r: zeroed when __GFP_ZERO is asked.
alloc_pages(m, r, gfp_mask, order) ==
    [m EXCEPT !.free[r] = @ - 1,
              !.order[r] = order,
              !.zero[r] = ("__GFP_ZERO" \in gfp_mask)]

\* __free_pages(page, order): the run is the general allocator's again.
\* A second release of a run it already owns is counted, not hidden.
free_pages(m, r) ==
    [m EXCEPT !.free[r] = @ + 1,
              !.order[r] = 0,
              !.zero[r] = FALSE,
              !.hist[r] = IF @.from = "none" \/ "hist" \notin ghost
                          THEN @ ELSE [@ EXCEPT !.sys = TRUE]]

\* ------------------------------------------------------------ the page pool
PageHighMem(r) == r % 2 = 0

Pool(h, cached, k) == IF cached THEN h.cached_pools[k] ELSE h.uncached_pools[k]

\* high_count + low_count
ion_page_pool_total(p) == Len(p.high_items) + Len(p.low_items)

\* The pages resident in the pools of both banks.
HeapTotal(h) ==
    SumSeq([k \in 1..num_orders |-> ion_page_pool_total(h.uncached_pools[k])])
        + SumSeq([k \in 1..num_orders |-> ion_page_pool_total(h.cached_pools[k])])

\* Ghost: the instant after a pool operation joins the instants recorded.
Observe(h) ==
    [h EXCEPT !.seen.all = IF @ = {} THEN @ ELSE @ \cup {HeapTotal(h)},
              !.seen.inv = IF @ = {} THEN @ ELSE @ \cup {HeapTotal(h)}]

\* Ghost: a shrink call starts, its inventory pass starts, the call returns.
SeenStart(h) ==
    IF "inst" \in ghost THEN [h EXCEPT !.seen.all = {HeapTotal(h)}] ELSE h

SeenInventory(h) ==
    IF "inst" \in ghost THEN [h EXCEPT !.seen.inv = {HeapTotal(h)}] ELSE h

SeenReturn(h) == [h EXCEPT !.seen = NoSeen]

WithPool(h, cached, k, p) ==
    Observe(IF cached
            THEN [h EXCEPT !.cached_pools[k] = p]
            ELSE [h EXCEPT !.uncached_pools[k] = p])

ion_page_pool_add(p, r) ==
    IF PageHighMem(r)
    THEN [p EXCEPT !.high_items = Append(@, r)]
    ELSE [p EXCEPT !.low_items = Append(@, r)]

\* The page a non-empty pool hands out: high memory first.
ion_page_pool_first(p) ==
    IF p.high_items # <<>> THEN Head(p.high_items) ELSE Head(p.low_items)

ion_page_pool_remove(p) ==
    IF p.high_items # <<>>
    THEN [p EXCEPT !.high_items = Tail(@)]
    ELSE [p EXCEPT !.low_items = Tail(@)]

\* ion_page_pool_free(pool, page) on the world w = [mem, heap].
ion_page_pool_free(w, cached, k, r) ==
    [w EXCEPT !.heap = WithPool(@, cached, k, ion_page_pool_add(Pool(@, cached, k), r))]

\* ion_page_pool_shrink(pool, gfp_mask, nr_to_scan): with nr_to_scan = 0 the
\* resident count; otherwise up to nr_to_scan resident pages are released to the
\* general allocator (low memory first) and their number is returned.
RECURSIVE ion_page_pool_shrink(_, _, _, _)
ion_page_pool_shrink(w, cached, k, n) ==
    LET p == Pool(w.heap, cached, k)
    IN  IF n = 0 THEN [w |-> w, ret |-> ion_page_pool_total(p)]
        ELSE IF ion_page_pool_total(p) = 0 THEN [w |-> w, ret |-> 0]
        ELSE LET r  == IF p.low_items # <<>> THEN Head(p.low_items) ELSE Head(p.high_items)
                 p2 == IF p.low_items # <<>>
                       THEN [p EXCEPT !.low_items = Tail(@)]
                       ELSE [p EXCEPT !.high_items = Tail(@)]
                 w2 == [mem |-> free_pages(w.mem, r), heap |-> WithPool(w.heap, cached, k, p2)]
                 rest == IF n = 1 THEN [w |-> w2, ret |-> 0]
                         ELSE ion_page_pool_shrink(w2, cached, k, n - 1)
             IN  [w |-> rest.w, ret |-> rest.ret + 1]

\* ion_heap_buffer_zero(buffer): every page of the buffer is zeroed.
ion_heap_buffer_zero(m, sg) ==
    [m EXCEPT !.zero = [r \in DOMAIN m.zero |->
        IF \E j \in 1..Len(sg) : sg[j].page = r THEN TRUE ELSE @[r]]]

\* ------------------------------------------------------------ the heap's helpers
World == [mem |-> mem, heap |-> sys_heap]

\* Faulty variant: the else of line 88 is missing, a shrinker-originated
\* release also puts the page in the pool.
free_buffer_page_both(cached, shrinker, order) ==
    IF shrinker
    THEN << [to |-> "sys", cached |-> FALSE, idx |-> 0],
            [to |-> "pool", cached |-> cached, idx |-> order_to_index(order)] >>
    ELSE << [to |-> "pool", cached |-> cached, idx |-> order_to_index(order)] >>

\* Faulty variant: the test of line 86 is missing, every page goes to a pool.
free_buffer_page_pooled(cached, shrinker, order) ==
    << [to |-> "pool", cached |-> cached, idx |-> order_to_index(order)] >>

\* Faulty variant: the banks of lines 90-93 are exchanged.
free_buffer_page_swapped(cached, shrinker, order) ==
    IF shrinker
    THEN << [to |-> "sys", cached |-> FALSE, idx |-> 0] >>
    ELSE << [to |-> "pool", cached |-> ~cached, idx |-> order_to_index(order)] >>

\* free_buffer_page: where the page goes, as the list of the releases made.
free_buffer_page(cached, shrinker, order) ==
    IF shrinker
    THEN << [to |-> "sys", cached |-> FALSE, idx |-> 0] >>
    ELSE << [to |-> "pool", cached |-> cached, idx |-> order_to_index(order)] >>

RECURSIVE Put(_, _, _)
Put(w, r, dests) ==
    IF dests = <<>> THEN w
    ELSE LET d == Head(dests)
             w2 == IF d.to = "sys"
                   THEN [w EXCEPT !.mem = free_pages(@, r)]
                   ELSE ion_page_pool_free(w, d.cached, d.idx, r)
         IN  Put(w2, r, Tail(dests))

\* Ghost: the run leaves a buffer of this cacheability.
MarkFreed(w, r, cached) ==
    IF "hist" \in ghost
    THEN [w EXCEPT !.mem.hist[r] =
            [from |-> IF cached THEN "cached" ELSE "uncached", sys |-> FALSE]]
    ELSE w

\* Faulty variant: the skip of lines 113-114 is missing.
Eligible_nosize(k, size, max_order) == ~(max_order < orders[k])

Eligible(k, size, max_order) ==
    /\ ~(size < order_to_size(orders[k]))
    /\ ~(max_order < orders[k])

\* Faulty variant: the scan runs from the smallest class to the largest.
NextEligible_last(from, size, max_order) ==
    IF \E k \in 1..(num_orders + 1 - from) : Eligible(k, size, max_order)
    THEN CHOOSE k \in 1..(num_orders + 1 - from) :
            /\ Eligible(k, size, max_order)
            /\ \A q \in (k + 1)..(num_orders + 1 - from) : ~Eligible(q, size, max_order)
    ELSE num_orders + 1

\* The next class index the scan of alloc_largest_available asks a page of,
\* from index from on; num_orders + 1 when the scan is over.
NextEligible(from, size, max_order) ==
    IF \E k \in from..num_orders : Eligible(k, size, max_order)
    THEN CHOOSE k \in from..num_orders :
            /\ Eligible(k, size, max_order)
            /\ \A q \in from..(k - 1) : ~Eligible(q, size, max_order)
    ELSE num_orders + 1

\* Faulty variant: list_add instead of list_add_tail.
list_add_head(list, info) == <<info>> \o list

list_add_tail(list, info) == Append(list, info)

InitRemaining(size) == PAGE_ALIGN(size)

\* Faulty variant: the guard compares with all of system memory.
SizeGuard_whole(size) == size \div PAGE_SIZE > totalram_pages

SizeGuard(size) == size \div PAGE_SIZE > totalram_pages \div 2

\* Faulty variant: the entry's length forgets the order.
sg_set_page_flat(info) == [page |-> info.page, length |-> PAGE_SIZE]

sg_set_page(info) == [page |-> info.page, length |-> (2 ^ info.order) * PAGE_SIZE]

\* Faulty variant: line 170 is missing.
Remaining_same(left, order) == left

\* size_remaining -= (1 << info->order) * PAGE_SIZE (line 170).
Remaining(left, order) == left - (2 ^ order) * PAGE_SIZE

\* A page run joins the call's list (lines 169-172).
Acquire(rec, r, order, fromsys) ==
    LET info == [page |-> r, order |-> order]
        left == Remaining(rec.size_remaining, order)
    IN  [rec EXCEPT !.pages = list_add_tail(@, info),
                    !.size_remaining = left,
                    !.max_order = order,
                    !.i = @ + 1,
                    !.oi = 1,
                    !.acq = Append(@, info),
                    !.skipped = IF "scan" \in ghost THEN Append(@, rec.tried) ELSE @,
                    !.tried = <<>>,
                    !.nsys = IF fromsys /\ rec.rtc # "no" THEN @ + 1 ELSE @,
                    !.st = IF left > 0 THEN "alloc" ELSE "table"]

GotoErr(rec) == [rec EXCEPT !.st = "err"]

\* Faulty variant: the table's failure returns at once, without the rollback.
OnTableFail_return(rec) == [rec EXCEPT !.st = "ret", !.ret = "ENOMEM"]

OnTableFail(rec) == GotoErr(rec)

\* The number of calls in flight.
InFlight ==
    Cardinality({b \in Bufs : buf[b].st \notin {"none", "live"}})
        + Cardinality({s \in Shrinkers : shr[s].pc # "idle"})

\* No call is in flight.
Quiet ==
    /\ \A b \in Bufs : buf[b].st \in {"none", "live"}
    /\ \A s \in Shrinkers : shr[s].pc = "idle"

OthersQuiet(b) ==
    /\ \A c \in Bufs \ {b} : buf[c].st \in {"none", "live"}
    /\ \A s \in Shrinkers : shr[s].pc = "idle"

\* Ghost: another call starts, so no round trip is undisturbed any more.
Disturb(bufs) == [c \in Bufs |-> [bufs[c] EXCEPT !.rtc = "no"]]

\* Ghost: the segment orders of a buffer built largest class first.
RECURSIVE GreedyOrders(_)
GreedyOrders(left) ==
    IF left <= 0 THEN <<>>
    ELSE LET k == NextEligible(1, left, orders[1])
         IN  IF k > num_orders THEN <<>>
             ELSE <<orders[k]>> \o GreedyOrders(left - order_to_size(orders[k]))

SgOrders(sg) == [j \in 1..Len(sg) |-> get_order(sg[j].length)]


\* ------------------------------------------------------------ ion_system_heap_allocate
\* Entry (lines 146-159): the alignment check, the size guard, the loop's setup.
AllocStart(b, size, align, cached, shrinker) ==
    /\ buf[b].st = "none"
    /\ LET rtc  == IF "rt" \in ghost /\ rt.valid /\ rt.size = size /\ rt.cached = cached /\ Quiet
                   THEN (IF rt.greedy THEN "greedy" ELSE "any")
                   ELSE "no"
           base == [BufNone EXCEPT !.size = size, !.cached = cached,
                                   !.shrinker = shrinker, !.rtc = rtc]
           rec  == IF align > PAGE_SIZE
                   THEN [base EXCEPT !.st = "ret", !.ret = "EINVAL"]
                   ELSE IF SizeGuard(size)
                   THEN [base EXCEPT !.st = "ret", !.ret = "ENOMEM"]
                   ELSE [base EXCEPT !.st = IF InitRemaining(size) > 0 THEN "alloc" ELSE "table",
                                     !.size_remaining = InitRemaining(size),
                                     !.max_order = orders[1],
                                     !.i = 0,
                                     !.oi = 1]
       IN  buf' = [Disturb(buf) EXCEPT ![b] = rec]
    /\ rt' = NoRt
    /\ quota # 0
    /\ quota' = IF quota > 0 THEN quota - 1 ELSE quota
    /\ UNCHANGED <<boot, contig, totalram_pages, ghost, mem, sys_heap, shr>>

\* alloc_largest_available: kmalloc of the page_info fails (lines 108-110, 167-168).
AllocInfoFail(b) ==
    /\ buf[b].st = "alloc"
    /\ buf[b].oi = 1
    /\ buf' = [buf EXCEPT ![b] = GotoErr(@)]
    /\ UNCHANGED <<boot, contig, totalram_pages, ghost, quota, mem, sys_heap, shr, rt>>

\* The class the scan asks next.
TryIdx(b) == NextEligible(buf[b].oi, buf[b].size_remaining, buf[b].max_order)

\* Faulty variant: the pool of the next class is asked.
TryPoolIdx_next(b) == (order_to_index(orders[TryIdx(b)]) % num_orders) + 1

\* alloc_buffer_page: the pool of the buffer's cacheability and of that order.
TryPoolIdx(b) == order_to_index(orders[TryIdx(b)])

\* alloc_buffer_page: the pool has a resident page.
AllocPoolHit(b) ==
    /\ buf[b].st = "alloc"
    /\ TryIdx(b) <= num_orders
    /\ LET p == Pool(sys_heap, buf[b].cached, TryPoolIdx(b))
       IN  /\ ion_page_pool_total(p) > 0
           /\ sys_heap' = WithPool(sys_heap, buf[b].cached, TryPoolIdx(b),
                                   ion_page_pool_remove(p))
           /\ buf' = [buf EXCEPT ![b] =
                        Acquire(@, ion_page_pool_first(p), orders[TryIdx(b)], FALSE)]
    /\ UNCHANGED <<boot, contig, totalram_pages, ghost, quota, mem, shr, rt>>

\* alloc_buffer_page: the pool is empty and takes a run of the general allocator.
AllocSysHit(b) ==
    /\ buf[b].st = "alloc"
    /\ TryIdx(b) <= num_orders
    /\ LET p == Pool(sys_heap, buf[b].cached, TryPoolIdx(b))
       IN  /\ ion_page_pool_total(p) = 0
           /\ FreeRuns(mem) # {}
           /\ mem' = alloc_pages(mem, PickRun(mem), p.gfp_mask, p.order)
           /\ buf' = [buf EXCEPT ![b] =
                        Acquire(@, PickRun(mem), orders[TryIdx(b)], TRUE)]
    /\ UNCHANGED <<boot, contig, totalram_pages, ghost, quota, sys_heap, shr, rt>>

\* The scan's continue (lines 119-120) and the loop's i++ (line 112).
NextClass(k) == k + 1

\* alloc_buffer_page: the pool is empty and the general allocator gives nothing;
\* the scan goes on with the next class (lines 119-120).
AllocMiss(b) ==
    /\ buf[b].st = "alloc"
    /\ TryIdx(b) <= num_orders
    /\ ion_page_pool_total(Pool(sys_heap, buf[b].cached, TryPoolIdx(b))) = 0
    /\ buf' = [buf EXCEPT ![b].oi = NextClass(TryIdx(b)),
                          ![b].tried = Append(@, TryIdx(b))]
    /\ UNCHANGED <<boot, contig, totalram_pages, ghost, quota, mem, sys_heap, shr, rt>>

\* The scan is over and no class gave a page (lines 127-129, 167-168).
AllocGiveUp(b) ==
    /\ buf[b].st = "alloc"
    /\ TryIdx(b) > num_orders
    /\ buf' = [buf EXCEPT ![b] = GotoErr(@)]
    /\ UNCHANGED <<boot, contig, totalram_pages, ghost, quota, mem, sys_heap, shr, rt>>

\* The descriptor table is built from the list (lines 180-198).
AllocTableOk(b) ==
    /\ buf[b].st = "table"
    /\ buf' = [buf EXCEPT ![b] =
                [@ EXCEPT !.st = "live",
                          !.ret = "OK",
                          !.sg = [j \in 1..Len(buf[b].pages) |-> sg_set_page(buf[b].pages[j])],
                          !.pages = <<>>]]
    /\ UNCHANGED <<boot, contig, totalram_pages, ghost, quota, mem, sys_heap, shr, rt>>

\* kmalloc of the table or sg_alloc_table fails (lines 181-186, 199-201).
AllocTableFail(b) ==
    /\ buf[b].st = "table"
    /\ buf' = [buf EXCEPT ![b] = OnTableFail(@)]
    /\ UNCHANGED <<boot, contig, totalram_pages, ghost, quota, mem, sys_heap, shr, rt>>

\* One turn of the rollback loop (lines 202-205).
AllocRollback(b) ==
    /\ buf[b].st = "err"
    /\ buf[b].pages # <<>>
    /\ LET info  == Head(buf[b].pages)
           dests == free_buffer_page(buf[b].cached, buf[b].shrinker, info.order)
           w     == Put(World, info.page, dests)
       IN  /\ mem' = w.mem
           /\ sys_heap' = w.heap
           /\ buf' = [buf EXCEPT ![b].pages = Tail(@),
                                 ![b].back = Append(@, [page |-> info.page,
                                                        order |-> info.order,
                                                        dests |-> dests])]
    /\ UNCHANGED <<boot, contig, totalram_pages, ghost, quota, shr, rt>>

\* The rollback loop is over: return -ENOMEM (line 206).
AllocFail(b) ==
    /\ buf[b].st = "err"
    /\ buf[b].pages = <<>>
    /\ buf' = [buf EXCEPT ![b].st = "ret", ![b].ret = "ENOMEM"]
    /\ UNCHANGED <<boot, contig, totalram_pages, ghost, quota, mem, sys_heap, shr, rt>>

\* The caller drops the buffer of a failed call.
AllocReturn(b) ==
    /\ buf[b].st = "ret"
    /\ buf' = [buf EXCEPT ![b] = BufNone]
    /\ UNCHANGED <<boot, contig, totalram_pages, ghost, quota, mem, sys_heap, shr, rt>>

\* ------------------------------------------------------------ the buffer's owner
\* The owner writes to its buffer.
Write(b) ==
    /\ buf[b].st = "live"
    /\ ~buf[b].wrote
    /\ mem' = [mem EXCEPT !.zero = [r \in DOMAIN mem.zero |->
                IF \E j \in 1..Len(buf[b].sg) : buf[b].sg[j].page = r THEN FALSE ELSE @[r]]]
    /\ buf' = [buf EXCEPT ![b].wrote = TRUE]
    /\ UNCHANGED <<boot, contig, totalram_pages, ghost, quota, sys_heap, shr, rt>>

\* ------------------------------------------------------------ ion_system_heap_free
\* Faulty variant: the buffer is never zeroed.
ZeroOnFree_never(m, sg, shrinker) == m

\* Lines 222-223: the buffer is zeroed unless its free comes from the shrinker.
ZeroOnFree(m, sg, shrinker) ==
    IF ~shrinker THEN ion_heap_buffer_zero(m, sg) ELSE m

\* Lines 215-223.
FreeStart(b) ==
    /\ buf[b].st = "live"
    /\ mem' = ZeroOnFree(mem, buf[b].sg, buf[b].shrinker)
    /\ buf' = [Disturb(buf) EXCEPT ![b] =
                [buf[b] EXCEPT !.st = "free", !.fi = 1, !.nsys = 0,
                               !.rtc = IF "rt" \in ghost /\ OthersQuiet(b) THEN "free" ELSE "no"]]
    /\ rt' = NoRt
    /\ UNCHANGED <<boot, contig, totalram_pages, ghost, quota, sys_heap, shr>>

\* One turn of the loop of lines 225-227; after the last, the table is freed.
FreeStep(b) ==
    /\ buf[b].st = "free"
    /\ buf[b].fi <= Len(buf[b].sg)
    /\ LET e     == buf[b].sg[buf[b].fi]
           dests == free_buffer_page(buf[b].cached, buf[b].shrinker, get_order(e.length))
           w     == Put(MarkFreed(World, e.page, buf[b].cached), e.page, dests)
           last  == buf[b].fi = Len(buf[b].sg)
       IN  /\ mem' = w.mem
           /\ sys_heap' = w.heap
           /\ buf' = [buf EXCEPT ![b] = IF last THEN BufNone ELSE [@ EXCEPT !.fi = @ + 1]]
           /\ rt' = IF last /\ buf[b].rtc = "free" /\ ~buf[b].shrinker /\ OthersQuiet(b)
                    THEN [valid |-> TRUE, size |-> buf[b].size, cached |-> buf[b].cached,
                          greedy |-> SgOrders(buf[b].sg)
                                       = GreedyOrders(PAGE_ALIGN(buf[b].size))]
                    ELSE rt
    /\ UNCHANGED <<boot, contig, totalram_pages, ghost, quota, shr>>

\* ------------------------------------------------------------ ion_system_heap_shrink
PoolCounts(h) ==
    [k \in 1..(2 * num_orders) |->
        IF k <= num_orders
        THEN ion_page_pool_total(h.uncached_pools[k])
        ELSE ion_page_pool_total(h.cached_pools[k - num_orders])]

Resident(h) == SumSeq(PoolCounts(h))

\* Lines 250-255.
ShrinkStart(s, nr_to_scan) ==
    /\ shr[s].pc = "idle"
    /\ shr' = [shr EXCEPT ![s] =
                [ShrIdle EXCEPT !.pc = IF nr_to_scan = 0 THEN "end" ELSE "scan",
                                !.nr_to_scan = nr_to_scan,
                                !.k = 1,
                                !.n0 = IF "snap" \in ghost THEN Resident(sys_heap) ELSE 0,
                                !.c0 = IF "snap" \in ghost THEN PoolCounts(sys_heap)
                                       ELSE <<>>]]
    /\ buf' = Disturb(buf)
    /\ rt' = NoRt
    /\ sys_heap' = IF nr_to_scan = 0 THEN SeenInventory(SeenStart(sys_heap))
                   ELSE SeenStart(sys_heap)
    /\ UNCHANGED <<boot, contig, totalram_pages, ghost, quota, mem>>

\* What each pool of the draining loop is asked to release.
ShrinkAsk(nr_to_scan, nr_freed) == nr_to_scan

\* Faulty variant: the draining loop visits the uncached bank only.
ShrinkPools_uncached ==
    [k \in 1..num_orders |-> [i |-> k, cached |-> FALSE]]

\* The pools the draining loop visits, in its order (lines 257-267).
ShrinkPools ==
    [k \in 1..(2 * num_orders) |-> [i |-> (k + 1) \div 2, cached |-> (k % 2 = 0)]]

\* Faulty variant: the inventory pass counts the uncached bank only.
InventoryPools_uncached ==
    [k \in 1..num_orders |-> [i |-> k, cached |-> FALSE]]

\* The pools the inventory pass counts, in its order (lines 269-274).
InventoryPools ==
    [k \in 1..(2 * num_orders) |-> [i |-> (k + 1) \div 2, cached |-> (k % 2 = 0)]]

\* Faulty variant: the number freed is returned.
ShrinkResult_freed(nr_total, nr_freed) == nr_freed

\* The value returned (line 275).
ShrinkResult(nr_total, nr_freed) == nr_total

\* One pool of the draining loop (lines 257-267).
ShrinkScan(s) ==
    /\ shr[s].pc = "scan"
    /\ LET at    == ShrinkPools[shr[s].k]
           res   == ion_page_pool_shrink(World, at.cached, at.i,
                                         ShrinkAsk(shr[s].nr_to_scan, shr[s].nr_freed))
           freed == shr[s].nr_freed + res.ret
           over  == freed >= shr[s].nr_to_scan \/ shr[s].k = Len(ShrinkPools)
       IN  /\ mem' = res.w.mem
           /\ sys_heap' = IF over THEN SeenInventory(res.w.heap) ELSE res.w.heap
           /\ shr' = [shr EXCEPT ![s] =
                        [@ EXCEPT !.nr_freed = freed,
                                  !.asks = IF "asks" \in ghost
                                           THEN Append(@, [order |-> Pool(sys_heap, at.cached, at.i).order,
                                                           cached |-> at.cached,
                                                           asked |-> ShrinkAsk(shr[s].nr_to_scan, shr[s].nr_freed),
                                                           before |-> shr[s].nr_freed])
                                           ELSE @,
                                  !.pc = IF over THEN "end" ELSE "scan",
                                  !.k = IF over THEN 1 ELSE @ + 1]]
    /\ UNCHANGED <<boot, contig, totalram_pages, ghost, quota, buf, rt>>

\* One pool of the inventory pass (lines 269-274); after the last, line 275.
ShrinkCount(s) ==
    /\ shr[s].pc = "end"
    /\ LET at    == InventoryPools[shr[s].k]
           res   == ion_page_pool_shrink(World, at.cached, at.i, 0)
           total == shr[s].nr_total + res.ret
           last  == shr[s].k = Len(InventoryPools)
       IN  shr' = [shr EXCEPT ![s] =
                        [@ EXCEPT !.nr_total = total,
                                  !.pc = IF last THEN "ret" ELSE "end",
                                  !.ret = IF last THEN ShrinkResult(total, shr[s].nr_freed)
                                          ELSE @,
                                  !.k = IF last THEN @ ELSE @ + 1]]
    /\ UNCHANGED <<boot, contig, totalram_pages, ghost, quota, mem, sys_heap, buf, rt>>

\* The shrinker's caller has its answer.
ShrinkReturn(s) ==
    /\ shr[s].pc = "ret"
    /\ shr' = [shr EXCEPT ![s] = ShrIdle]
    /\ sys_heap' = SeenReturn(sys_heap)
    /\ UNCHANGED <<boot, contig, totalram_pages, ghost, quota, mem, buf, rt>>

\* ------------------------------------------------------------ the contiguous heap
\* __free_page(page + i): page i of the run is the general allocator's again.
\* A second release of the same page is counted, not hidden.
free_page(rec, i) == [rec EXCEPT !.released[i] = @ + 1]

\* Line 456.
ContigAlignGuard(align, order) == align > PAGE_SIZE * (2 ^ order)

\* Faulty variant: the trim starts at the unaligned length.
TrimFrom_floor(len) == len \div PAGE_SIZE

\* Lines 465-466: the first page the trim releases.
TrimFrom(len) == PAGE_ALIGN(len) \div PAGE_SIZE

\* Faulty variant: the free releases the whole run.
FreePages_run(size) == 2 ^ get_order(size)

\* Line 498: the number of pages the free releases.
FreePages(size) == PAGE_ALIGN(size) \div PAGE_SIZE

\* ion_system_contig_heap_allocate, lines 450-457; the caller has set
\* buffer->size to len.
ContigAllocStart(len, align) ==
    /\ contig.st = "none"
    /\ LET order == get_order(len)
           base  == [ContigNone EXCEPT !.len = len, !.size = len, !.order = order]
       IN  contig' = IF ContigAlignGuard(align, order)
                     THEN [base EXCEPT !.st = "ret", !.ret = "EINVAL"]
                     ELSE [base EXCEPT !.st = "pages"]
    /\ UNCHANGED <<boot, totalram_pages, ghost, quota, mem, sys_heap, buf, shr, rt>>

\* alloc_pages gives nothing (lines 459-461).
ContigPagesFail ==
    /\ contig.st = "pages"
    /\ contig' = [contig EXCEPT !.st = "ret", !.ret = "ENOMEM"]
    /\ UNCHANGED <<boot, totalram_pages, ghost, quota, mem, sys_heap, buf, shr, rt>>

\* alloc_pages gives a run of 2^order pages, split_page makes them single
\* pages, len is aligned (lines 459-465).
ContigPagesOk ==
    /\ contig.st = "pages"
    /\ contig' = [contig EXCEPT
                    !.released = [j \in 0..((2 ^ contig.order) - 1) |-> 0],
                    !.len = PAGE_ALIGN(@),
                    !.i = TrimFrom(contig.len),
                    !.st = IF TrimFrom(contig.len) < 2 ^ contig.order
                           THEN "trim" ELSE "table"]
    /\ UNCHANGED <<boot, totalram_pages, ghost, quota, mem, sys_heap, buf, shr, rt>>

\* One turn of the loop of lines 466-467.
ContigTrim ==
    /\ contig.st = "trim"
    /\ contig' = [free_page(contig, contig.i) EXCEPT
                    !.i = @ + 1,
                    !.st = IF contig.i + 1 < 2 ^ contig.order THEN "trim" ELSE "table"]
    /\ UNCHANGED <<boot, totalram_pages, ghost, quota, mem, sys_heap, buf, shr, rt>>

\* The table is allocated and describes the run's prefix (lines 469-485).
ContigTableOk ==
    /\ contig.st = "table"
    /\ contig' = [contig EXCEPT !.st = "live", !.ret = "OK",
                                !.sg = << [page |-> 0, length |-> contig.len] >>]
    /\ UNCHANGED <<boot, totalram_pages, ghost, quota, mem, sys_heap, buf, shr, rt>>

\* kmalloc of the table or sg_alloc_table fails (lines 470-477).
ContigTableFail ==
    /\ contig.st = "table"
    /\ contig' = [contig EXCEPT !.st = "out", !.i = 0]
    /\ UNCHANGED <<boot, totalram_pages, ghost, quota, mem, sys_heap, buf, shr, rt>>

\* One turn of the loop of lines 488-489; after the last, lines 490-491.
ContigOut ==
    /\ contig.st = "out"
    /\ contig.i < contig.len \div PAGE_SIZE
    /\ contig' = [free_page(contig, contig.i) EXCEPT
                    !.i = @ + 1,
                    !.st = IF contig.i + 1 < contig.len \div PAGE_SIZE THEN "out" ELSE "ret",
                    !.ret = "ENOMEM"]
    /\ UNCHANGED <<boot, totalram_pages, ghost, quota, mem, sys_heap, buf, shr, rt>>

\* ion_system_contig_heap_free, lines 496-499.
ContigFreeStart ==
    /\ contig.st = "live"
    /\ contig' = [contig EXCEPT !.st = "free", !.i = 0]
    /\ UNCHANGED <<boot, totalram_pages, ghost, quota, mem, sys_heap, buf, shr, rt>>

\* One turn of the loop of lines 501-502; after the last, lines 503-504.
ContigFreeStep ==
    /\ contig.st = "free"
    /\ contig.i < FreePages(contig.size)
    /\ contig' = [free_page(contig, contig.sg[1].page + contig.i) EXCEPT
                    !.i = @ + 1,
                    !.st = IF contig.i + 1 < FreePages(contig.size) THEN "free" ELSE "freed"]
    /\ UNCHANGED <<boot, totalram_pages, ghost, quota, mem, sys_heap, buf, shr, rt>>

\* The caller is done with a failed call or with a freed buffer.
ContigReturn ==
    /\ contig.st \in {"ret", "freed"}
    /\ contig' = ContigNone
    /\ UNCHANGED <<boot, totalram_pages, ghost, quota, mem, sys_heap, buf, shr, rt>>

\* ------------------------------------------------------------ construction
\* Faulty variant: the slot is destroyed whether or not it holds a pool.
destroy_slot_any(rec, bank, i) == [rec EXCEPT !.destroyed[bank][i] = @ + 1]

\* Lines 360-361: one turn of ion_system_heap_destroy_pools.
destroy_slot(rec, bank, i) ==
    IF rec.pools[bank][i] # 0
    THEN [rec EXCEPT !.destroyed[bank][i] = @ + 1]
    ELSE rec

\* Faulty variant: a cached-bank failure leaves without the uncached bank's
\* teardown.
AfterBankFail_leave(bank) == "err_create_uncached_pools"

\* Lines 411-415: the label a failed ion_system_heap_create_pools goes to.
AfterBankFail(bank) ==
    IF bank = "cached" THEN "err_create_cached_pools" ELSE "err_create_uncached_pools"

\* A call of ion_system_heap_destroy_pools(pools) that returns to ret.
StartDestroy(rec, bank, ret) ==
    [rec EXCEPT !.pc = "destroy_pools", !.bank = bank, !.i = 1, !.ret = ret]

\* The three kzalloc calls of lines 396-409, failing: no pool exists yet and
\* lines 423-428 free only the arrays and the heap.
BootAllocFail ==
    /\ boot.pc \in {"heap", "uncached_pools", "cached_pools"}
    /\ boot' = [boot EXCEPT !.pc = "failed"]
    /\ UNCHANGED <<contig, totalram_pages, ghost, quota, mem, sys_heap, buf, shr, rt>>

\* The three kzalloc calls of lines 396-409, succeeding; the arrays are zeroed.
BootAllocOk ==
    /\ boot.pc \in {"heap", "uncached_pools", "cached_pools"}
    /\ boot' = CASE boot.pc = "heap" -> [boot EXCEPT !.pc = "uncached_pools"]
                 [] boot.pc = "uncached_pools" -> [boot EXCEPT !.pc = "cached_pools"]
                 [] boot.pc = "cached_pools" ->
                        [boot EXCEPT !.pc = "create_pools", !.bank = "uncached", !.i = 1]
    /\ UNCHANGED <<contig, totalram_pages, ghost, quota, mem, sys_heap, buf, shr, rt>>

\* Lines 380-385 with a pool created; after the last class, lines 411-418.
CreatePoolOk ==
    /\ boot.pc = "create_pools"
    /\ LET made == [boot EXCEPT !.pools[boot.bank][boot.i] = 1,
                                !.created[boot.bank][boot.i] = @ + 1]
       IN  boot' = CASE boot.i < num_orders -> [made EXCEPT !.i = @ + 1]
                     [] boot.i = num_orders /\ boot.bank = "uncached" ->
                            [made EXCEPT !.bank = "cached", !.i = 1]
                     [] OTHER -> [made EXCEPT !.pc = "done", !.bank = "none", !.i = 0]
    /\ UNCHANGED <<contig, totalram_pages, ghost, quota, mem, sys_heap, buf, shr, rt>>

\* Lines 380-382 and 386-387 with no pool created.
CreatePoolFail ==
    /\ boot.pc = "create_pools"
    /\ boot' = StartDestroy(boot, boot.bank, "create_pools")
    /\ UNCHANGED <<contig, totalram_pages, ghost, quota, mem, sys_heap, buf, shr, rt>>

\* Where ion_system_heap_destroy_pools returns to: line 388 and the goto of
\* lines 412 and 415, line 422, line 438, line 439.
AfterDestroy(rec) ==
    CASE rec.ret = "create_pools" ->
             IF AfterBankFail(rec.bank) = "err_create_cached_pools"
             THEN StartDestroy(rec, "uncached", "err_create_cached_pools")
             ELSE [rec EXCEPT !.pc = "failed"]
      [] rec.ret = "err_create_cached_pools" -> [rec EXCEPT !.pc = "failed"]
      [] rec.ret = "destroy_uncached" -> StartDestroy(rec, "cached", "destroy_cached")
      [] OTHER -> [rec EXCEPT !.pc = "gone"]

\* One turn of the loop of lines 359-361.
DestroyPoolsStep ==
    /\ boot.pc = "destroy_pools"
    /\ LET rec == destroy_slot(boot, boot.bank, boot.i)
       IN  boot' = IF boot.i < num_orders
                   THEN [rec EXCEPT !.i = @ + 1]
                   ELSE AfterDestroy(rec)
    /\ UNCHANGED <<contig, totalram_pages, ghost, quota, mem, sys_heap, buf, shr, rt>>

\* ion_system_heap_destroy, line 437.
HeapDestroy ==
    /\ boot.pc = "done"
    /\ boot' = StartDestroy(boot, "uncached", "destroy_uncached")
    /\ UNCHANGED <<contig, totalram_pages, ghost, quota, mem, sys_heap, buf, shr, rt>>

\* ------------------------------------------------------------ specifications
\* System memory of the main specifications: enough for every size but BigSize.
MainRam == 4 * (2 ^ orders[1])

\* A size the guard of line 156 refuses.
BigSize == ((MainRam \div 2) + 1) * PAGE_SIZE

\* Request sizes, in bytes: one page, two pages less a byte, one run of the
\* second class plus a page, and BigSize.
Sizes == {PAGE_SIZE, 2 * PAGE_SIZE - 1, ((2 ^ orders[2]) + 1) * PAGE_SIZE, BigSize}

ConcSizes == {PAGE_SIZE, 2 * PAGE_SIZE - 1}

Aligns == {PAGE_SIZE, 2 * PAGE_SIZE}

\* The buffer flags of a request: <<cached, shrinker-originated>>.
Flags == BOOLEAN \X BOOLEAN

\* The steps of allocate on buffers B with request sizes SZ, alignments AL and
\* buffer flags FL; a call starts only when fewer than calls are in flight.
AllocSteps(B, SZ, AL, FL, calls) ==
    \/ \E b \in B, size \in SZ, align \in AL, fl \in FL :
          InFlight < calls /\ AllocStart(b, size, align, fl[1], fl[2])
    \/ \E b \in B : AllocInfoFail(b)
    \/ \E b \in B : AllocPoolHit(b)
    \/ \E b \in B : AllocSysHit(b)
    \/ \E b \in B : AllocMiss(b)
    \/ \E b \in B : AllocGiveUp(b)
    \/ \E b \in B : AllocTableOk(b)
    \/ \E b \in B : AllocTableFail(b)
    \/ \E b \in B : AllocRollback(b)
    \/ \E b \in B : AllocFail(b)
    \/ \E b \in B : AllocReturn(b)

FreeSteps(B, calls) ==
    \/ \E b \in B : InFlight < calls /\ FreeStart(b)
    \/ \E b \in B : FreeStep(b)

WriteSteps(B, calls) ==
    \E b \in B : InFlight < calls /\ Write(b)

ShrinkSteps(maxscan, calls) ==
    \/ \E s \in Shrinkers, nr \in 0..maxscan : InFlight < calls /\ ShrinkStart(s, nr)
    \/ \E s \in Shrinkers : ShrinkScan(s)
    \/ \E s \in Shrinkers : ShrinkCount(s)
    \/ \E s \in Shrinkers : ShrinkReturn(s)

\* Concurrent calls, interleaved at pool operations.
Init == InitWith({MainRam}, ConcRuns, {}, -1)

Next ==
    \/ AllocSteps(Bufs, ConcSizes, {PAGE_SIZE}, Flags, MaxCalls)
    \/ FreeSteps(Bufs, MaxCalls)
    \/ ShrinkSteps(ConcScan, MaxCalls)

Spec == Init /\ [][Next]_vars

\* One call at a time.
SeqInit == InitWith({MainRam}, MaxRuns, {"snap", "scan", "asks"}, -1)

SeqNext ==
    \/ AllocSteps(Bufs, Sizes, Aligns, Flags, 1)
    \/ FreeSteps(Bufs, 1)
    \/ ShrinkSteps(MaxScan, 1)

SpecSeq == SeqInit /\ [][SeqNext]_vars

\* The steps of an allocate call after its entry.
AllocRun ==
    \E b \in Bufs :
        \/ AllocInfoFail(b) \/ AllocPoolHit(b) \/ AllocSysHit(b) \/ AllocMiss(b)
        \/ AllocGiveUp(b) \/ AllocTableOk(b) \/ AllocTableFail(b)
        \/ AllocRollback(b) \/ AllocFail(b)

\* One call at a time; the thread that runs allocate is not stopped for ever.
SpecLive == SeqInit /\ [][SeqNext]_vars /\ WF_vars(AllocRun)

\* Concurrent calls on buffers of one page; the resident totals at the
\* instants of a shrink call are recorded.
SnapInit == InitWith({MainRam}, ConcRuns, {"inst"}, -1)

SnapNext ==
    \/ AllocSteps(Bufs, {PAGE_SIZE}, {PAGE_SIZE}, BOOLEAN \X {FALSE}, MaxCalls)
    \/ FreeSteps(Bufs, MaxCalls)
    \/ ShrinkSteps(ConcScan, MaxCalls)

SpecSnap == SnapInit /\ [][SnapNext]_vars

\* The lengths and the alignments asked of the contiguous heap.
ContigLens == 1..(MaxContigPages * PAGE_SIZE)

ContigAligns == {PAGE_SIZE, 2 * PAGE_SIZE, 4 * PAGE_SIZE}

ContigSteps ==
    \/ \E len \in ContigLens, align \in ContigAligns : ContigAllocStart(len, align)
    \/ ContigPagesFail
    \/ ContigPagesOk
    \/ ContigTrim
    \/ ContigTableOk
    \/ ContigTableFail
    \/ ContigOut
    \/ ContigFreeStart
    \/ ContigFreeStep
    \/ ContigReturn

BootSteps ==
    \/ BootAllocFail
    \/ BootAllocOk
    \/ CreatePoolOk
    \/ CreatePoolFail
    \/ DestroyPoolsStep
    \/ HeapDestroy

\* The system heap under construction, beside the contiguous heap in use.
AuxInit ==
    /\ totalram_pages = MainRam
    /\ ghost = {}
    /\ quota = -1
    /\ mem = MemInit(MaxRuns)
    /\ sys_heap = ion_system_heap_create
    /\ buf = [b \in Bufs |-> BufNone]
    /\ shr = [s \in Shrinkers |-> ShrIdle]
    /\ rt = NoRt
    /\ boot = BootStart
    /\ contig = ContigNone

AuxNext == BootSteps \/ ContigSteps

SpecAux == AuxInit /\ [][AuxNext]_vars

\* One call at a time, on one buffer whose owner writes to it; the pages'
\* history is recorded.
IsoInit == InitWith({MainRam}, IsoRuns, {"hist"}, -1)

IsoNext ==
    \/ AllocSteps({1}, ConcSizes, {PAGE_SIZE}, Flags, 1)
    \/ FreeSteps({1}, 1)
    \/ WriteSteps({1}, 1)
    \/ ShrinkSteps(ConcScan, 1)

SpecIso == IsoInit /\ [][IsoNext]_vars

\* One call at a time on one buffer, for every small size and system memory.
GuardSizes == 1..(((MaxRam \div 2) + 2) * PAGE_SIZE)

GuardInit == InitWith(1..MaxRam, MaxRuns, {}, -1)

GuardNext ==
    \/ AllocSteps({1}, GuardSizes, Aligns, Flags, 1)
    \/ FreeSteps({1}, 1)

SpecGuard == GuardInit /\ [][GuardNext]_vars

\* One call at a time on one buffer, with enough runs of the general allocator
\* for a buffer of single pages that covers the second size class, and one more.
RunsRT == (2 ^ orders[2]) + 1

SizesRT == {(2 ^ orders[2]) * PAGE_SIZE}

RTInit == InitWith({MainRam}, RunsRT, {"rt"}, AllocsRT)

RTNext ==
    \/ AllocSteps({1}, SizesRT, {PAGE_SIZE}, BOOLEAN \X {FALSE}, 1)
    \/ FreeSteps({1}, 1)

SpecRT == RTInit /\ [][RTNext]_vars

\* ------------------------------------------------------------ properties
Runs == DOMAIN mem.free

\* How many times x occurs in the sequence q.
Count(q, x) == Cardinality({j \in 1..Len(q) : q[j] = x})

\* How many times run r is resident in pool p.
PoolOcc(p, r) == Count(p.high_items, r) + Count(p.low_items, r)

\* How many times run r is resident in the pools of both banks.
InPools(r) ==
    SumSeq([k \in 1..(2 * num_orders) |->
        IF k <= num_orders
        THEN PoolOcc(sys_heap.uncached_pools[k], r)
        ELSE PoolOcc(sys_heap.cached_pools[k - num_orders], r)])

\* The pages of the in-flight segment list of the call on buffer b.
ListPages(b) == [j \in 1..Len(buf[b].pages) |-> buf[b].pages[j].page]

\* The pages the descriptor of buffer b still holds: all of them while the
\* buffer lives, those the free loop has not released yet afterwards.
DescPages(b) ==
    LET from == IF buf[b].st = "free" THEN buf[b].fi ELSE 1
    IN  [j \in 1..(Len(buf[b].sg) + 1 - from) |-> buf[b].sg[j + from - 1].page]

\* The index in orders[] of the class of that order, by search.
ClassOf(order) == CHOOSE k \in 1..num_orders : orders[k] = order

\* Where the rollback has to put a run of that order of buffer b.
RollbackDest(b, order) ==
    IF buf[b].shrinker
    THEN [to |-> "sys", cached |-> FALSE, idx |-> 0]
    ELSE [to |-> "pool", cached |-> buf[b].cached, idx |-> ClassOf(order)]

\* Run r is where d says, and nowhere else.
IsAt(r, d) ==
    IF d.to = "sys"
    THEN mem.free[r] = 1 /\ InPools(r) = 0
    ELSE /\ mem.free[r] = 0
         /\ InPools(r) = 1
         /\ PoolOcc(Pool(sys_heap, d.cached, d.idx), r) = 1

\* C1: when allocate returns -ENOMEM after having acquired k >= 1 runs, each
\* of the k runs has been handed back exactly once, to the pool of its order
\* in the bank of the buffer's cacheability, or to the general allocator when
\* the buffer carries the shrinker-free flag; nothing is left with the buffer.
C1_Rollback ==
    \A b \in Bufs :
        (buf[b].st = "ret" /\ buf[b].ret = "ENOMEM") =>
            /\ buf[b].pages = <<>>
            /\ buf[b].sg = <<>>
            /\ Len(buf[b].back) = Len(buf[b].acq)
            /\ \A j \in 1..Len(buf[b].acq) :
                LET a == buf[b].acq[j]
                    given == {i \in 1..Len(buf[b].back) : buf[b].back[i].page = a.page}
                IN  /\ Cardinality(given) = 1
                    /\ \A i \in given :
                        /\ buf[b].back[i].order = a.order
                        /\ buf[b].back[i].dests = << RollbackDest(b, a.order) >>
                    /\ IsAt(a.page, RollbackDest(b, a.order))

\* A call that fails after acquiring two runs of different orders, bound for
\* the pools.
C1_Witness ==
    \E b \in Bufs :
        /\ buf[b].st = "ret"
        /\ buf[b].ret = "ENOMEM"
        /\ Len(buf[b].acq) = 2
        /\ buf[b].acq[1].order # buf[b].acq[2].order
        /\ ~buf[b].shrinker
        /\ Len(buf[b].back) = 2

\* The number of places run r is in: the general allocator, the pools, the
\* segment lists of the allocate calls in flight, the descriptors of the buffers.
Places(r) ==
    mem.free[r] + InPools(r)
        + SumSeq([b \in 1..Cardinality(Bufs) |-> Count(ListPages(b), r)])
        + SumSeq([b \in 1..Cardinality(Bufs) |-> Count(DescPages(b), r)])

\* C2: under every interleaving of allocate, free and shrink calls, each page
\* run is at every moment in exactly one place: the general allocator, one
\* pool, the segment list of one allocate call, or the descriptor of one buffer.
C2_OnePlace == \A r \in Runs : Places(r) = 1

\* A rollback and a free in flight at the same time, each still holding a run.
C2_Witness ==
    \E b, c \in Bufs :
        /\ b # c
        /\ buf[b].st = "err"
        /\ buf[b].pages # <<>>
        /\ buf[c].st = "free"
        /\ buf[c].fi <= Len(buf[c].sg)

Cacheability(b) == IF buf[b].cached THEN "cached" ELSE "uncached"

\* The runs a buffer got from a successful allocate.
HeldBy(b) == IF buf[b].st = "live" THEN {buf[b].sg[j].page : j \in 1..Len(buf[b].sg)} ELSE {}

\* C3, as stated: a run freed from a buffer of one cacheability is never
\* returned by a later allocate for a buffer of the other cacheability.
C3_Isolation ==
    \A b \in Bufs : \A r \in HeldBy(b) :
        mem.hist[r].from \in {"none", Cacheability(b)}

\* C3, amended: a run freed from a buffer of one cacheability is not returned
\* by a later allocate for a buffer of the other cacheability unless it has
\* been released to the general allocator in between.
C3_IsolationInPools ==
    \A b \in Bufs : \A r \in HeldBy(b) :
        ~mem.hist[r].sys => mem.hist[r].from \in {"none", Cacheability(b)}

\* A buffer holds a run that was freed from an earlier buffer and came back
\* through a pool.
C3_Witness ==
    \E b \in Bufs : \E r \in HeldBy(b) :
        /\ mem.hist[r].from = Cacheability(b)
        /\ ~mem.hist[r].sys

\* C4: every page resident in a pool is zeroed.
C4_PoolZero == \A r \in Runs : InPools(r) > 0 => mem.zero[r]

\* The free of an uncached buffer its owner wrote to, not shrinker-originated,
\* has put the buffer's first run in the pool.
C4_Witness ==
    \E b \in Bufs :
        /\ buf[b].st = "free"
        /\ buf[b].wrote
        /\ ~buf[b].shrinker
        /\ ~buf[b].cached
        /\ buf[b].fi = 2
        /\ InPools(buf[b].sg[1].page) = 1

\* C5, as stated: an allocate that follows the free of a buffer of the same
\* size and cacheability, with no other traffic, takes no page from the
\* general allocator.
C5_RoundTrip ==
    \A b \in Bufs : buf[b].rtc \in {"any", "greedy"} => buf[b].nsys = 0

\* C5, amended: the same, when the freed buffer's segments were those of the
\* largest-class-first split of its size.
C5_RoundTripGreedy ==
    \A b \in Bufs : buf[b].rtc = "greedy" => buf[b].nsys = 0

\* The second allocate of such a round trip has succeeded.
C5_Witness ==
    \E b \in Bufs :
        /\ buf[b].rtc = "greedy"
        /\ buf[b].st = "live"
        /\ buf[b].sg # <<>>

\* The sum of the segment lengths of a descriptor.
SgBytes(sg) == SumSeq([j \in 1..Len(sg) |-> sg[j].length])

\* C6: the segment lengths of the descriptor of a successful allocate sum to
\* at least the page-aligned size and to less than the page-aligned size plus
\* the byte size of the largest class.
C6_Coverage ==
    \A b \in Bufs :
        buf[b].st = "live" =>
            /\ SgBytes(buf[b].sg) >= PAGE_ALIGN(buf[b].size)
            /\ SgBytes(buf[b].sg) < PAGE_ALIGN(buf[b].size) + order_to_size(orders[1])

\* A buffer of two segments whose size is not a multiple of the page size.
C6_Witness ==
    \E b \in Bufs :
        /\ buf[b].st = "live"
        /\ buf[b].size % PAGE_SIZE # 0
        /\ Len(buf[b].sg) = 2
        /\ SgBytes(buf[b].sg) = PAGE_ALIGN(buf[b].size)

\* C7: the descriptor of a successful allocate has one entry per acquired
\* segment, in the order of acquisition, and the orders do not increase.
C7_Descending ==
    \A b \in Bufs :
        buf[b].st = "live" =>
            /\ Len(buf[b].sg) = Len(buf[b].acq)
            /\ \A j \in 1..Len(buf[b].sg) :
                /\ buf[b].sg[j].page = buf[b].acq[j].page
                /\ buf[b].sg[j].length = order_to_size(buf[b].acq[j].order)
            /\ \A j \in 1..(Len(buf[b].sg) - 1) :
                buf[b].sg[j].length >= buf[b].sg[j + 1].length

\* A descriptor of two segments of different orders.
C7_Witness ==
    \E b \in Bufs :
        /\ buf[b].st = "live"
        /\ Len(buf[b].acq) = 2
        /\ buf[b].acq[1].order > buf[b].acq[2].order

\* C8: shrink with nr_to_scan = 0 returns the number of pages resident in the
\* pools of both banks and leaves the resident count of every pool as it was.
C8_Inventory ==
    \A s \in Shrinkers :
        (shr[s].pc = "ret" /\ shr[s].nr_to_scan = 0) =>
            /\ shr[s].ret = shr[s].n0
            /\ PoolCounts(sys_heap) = shr[s].c0

\* Such a call returns with pages resident in both banks.
C8_Witness ==
    \E s \in Shrinkers :
        /\ shr[s].pc = "ret"
        /\ shr[s].nr_to_scan = 0
        /\ shr[s].ret = 2
        /\ \E k \in 1..num_orders : ion_page_pool_total(sys_heap.cached_pools[k]) = 1
        /\ \E k \in 1..num_orders : ion_page_pool_total(sys_heap.uncached_pools[k]) = 1

\* C9: shrink with nr_to_scan > 0 returns the number of pages still resident
\* in the pools of both banks; when the pools held nr_to_scan pages or fewer,
\* every pool is drained and 0 is returned.
C9_Resident ==
    \A s \in Shrinkers :
        (shr[s].pc = "ret" /\ shr[s].nr_to_scan > 0) =>
            /\ shr[s].ret = Resident(sys_heap)
            /\ (shr[s].n0 <= shr[s].nr_to_scan) =>
                /\ shr[s].ret = 0
                /\ \A k \in 1..(2 * num_orders) : PoolCounts(sys_heap)[k] = 0

\* Such a call has drained pages of both banks: it has freed two and returns 0.
C9_Witness ==
    \E s \in Shrinkers :
        /\ shr[s].pc = "ret"
        /\ shr[s].nr_to_scan = 2
        /\ shr[s].n0 = 2
        /\ shr[s].c0[num_orders] = 1
        /\ shr[s].c0[2 * num_orders] = 1
        /\ shr[s].nr_freed = 2
        /\ shr[s].ret = 0

\* The call on buffer b was not refused for its alignment.
Aligned(b) == buf[b].st # "none" /\ buf[b].ret # "EINVAL"

\* The call on buffer b has failed with -ENOMEM and has acquired nothing.
Refused(b) ==
    /\ buf[b].st = "ret"
    /\ buf[b].ret = "ENOMEM"
    /\ buf[b].acq = <<>>

\* C10, as stated: allocate fails with -ENOMEM, without acquiring a page,
\* whenever the page-aligned size, in pages, is greater than half of
\* totalram_pages.
C10_GuardAligned ==
    \A b \in Bufs :
        (Aligned(b) /\ PAGE_ALIGN(buf[b].size) \div PAGE_SIZE > totalram_pages \div 2)
            => Refused(b)

\* C10, amended: allocate fails with -ENOMEM, without acquiring a page,
\* whenever the size, in whole pages rounded down, is greater than half of
\* totalram_pages, rounded down.
C10_GuardFloor ==
    \A b \in Bufs :
        (Aligned(b) /\ buf[b].size \div PAGE_SIZE > totalram_pages \div 2)
            => Refused(b)

\* A call of a size that is not a multiple of the page size is refused.
C10_Witness ==
    \E b \in Bufs :
        /\ Refused(b)
        /\ buf[b].size % PAGE_SIZE # 0
        /\ buf[b].size \div PAGE_SIZE > totalram_pages \div 2
        /\ totalram_pages > 0

\* C13, as stated: in a shrink with nr_to_scan > 0 each pool is asked to
\* release at most nr_to_scan less what the pools asked before it have freed;
\* the pools are asked largest class first, and none is asked once the number
\* freed has reached nr_to_scan.
C13_OutstandingNeed ==
    \A s \in Shrinkers :
        \A j \in 1..Len(shr[s].asks) :
            LET a == shr[s].asks[j]
            IN  /\ a.before < shr[s].nr_to_scan
                /\ a.asked <= shr[s].nr_to_scan - a.before
                /\ j > 1 => shr[s].asks[j - 1].order >= a.order

\* The classes, by index, that fit size bytes and do not exceed max_order,
\* largest first.
EligibleList(size, max_order) ==
    SelectSeq([k \in 1..num_orders |-> k],
              LAMBDA k : order_to_size(orders[k]) <= size /\ orders[k] <= max_order)

IsPrefix(p, q) == Len(p) <= Len(q) /\ \A j \in 1..Len(p) : p[j] = q[j]

\* The bytes of the first n segments the call on buffer b acquired.
AcqBytes(b, n) == SumSeq([j \in 1..n |-> order_to_size(buf[b].acq[j].order)])

\* The bytes that remained, and the largest order allowed, in the step that
\* acquired segment j of buffer b.
RemainingAt(b, j) == PAGE_ALIGN(buf[b].size) - AcqBytes(b, j - 1)

MaxOrderAt(b, j) == IF j = 1 THEN orders[1] ELSE buf[b].acq[j - 1].order

\* The classes asked in each step so far are the eligible ones, largest first,
\* up to the one that gave a page.
ScanInOrder(b) ==
    /\ \A j \in 1..Len(buf[b].skipped) :
        IsPrefix(Append(buf[b].skipped[j], ClassOf(buf[b].acq[j].order)),
                 EligibleList(RemainingAt(b, j), MaxOrderAt(b, j)))
    /\ buf[b].st = "alloc" =>
        IsPrefix(buf[b].tried, EligibleList(buf[b].size_remaining, buf[b].max_order))

\* The call on buffer b has failed in a step of its loop.
StepFailed(b) == buf[b].st = "err" /\ buf[b].size_remaining > 0

\* Every eligible class, down to order 0, was asked in the failed step.
AllTried(b) ==
    /\ buf[b].tried = EligibleList(buf[b].size_remaining, buf[b].max_order)
    /\ buf[b].tried # <<>>
    /\ orders[buf[b].tried[Len(buf[b].tried)]] = 0

\* C15, as stated: each step of the allocate loop asks the eligible classes
\* from the largest to the smallest, going on to the next when one gives no
\* page, and the step fails only when every eligible class has given no page.
C15_ScanOrder ==
    \A b \in Bufs :
        /\ ScanInOrder(b)
        /\ StepFailed(b) => AllTried(b)

\* C15, amended: the same, but a step also fails, before any class is asked,
\* when the segment's page_info cannot be allocated.
C15_ScanOrderOrInfo ==
    \A b \in Bufs :
        /\ ScanInOrder(b)
        /\ StepFailed(b) => (AllTried(b) \/ buf[b].tried = <<>>)

\* A step fails after two eligible classes gave no page.
C15_Witness ==
    \E b \in Bufs :
        /\ StepFailed(b)
        /\ AllTried(b)
        /\ Len(buf[b].tried) = 2

\* The call on buffer b is running.
Running(b) == buf[b].st \in {"alloc", "table", "err"}

\* C16: every allocate call ends, with a buffer or with an error, and each
\* segment acquired on the way lowers the remaining bytes by a page at least.
C16_Terminates ==
    /\ \A b \in Bufs : Running(b) ~> (buf[b].st \in {"live", "ret"})
    /\ [][\A b \in Bufs :
            (Running(b) /\ Len(buf'[b].acq) > Len(buf[b].acq)) =>
                buf'[b].size_remaining <= buf[b].size_remaining - PAGE_SIZE]_vars

\* A call has ended in an error after a class gave no page and a segment was
\* acquired.
C16_Witness ==
    \E b \in Bufs :
        /\ buf[b].st = "ret"
        /\ buf[b].ret = "ENOMEM"
        /\ Len(buf[b].acq) = 1
        /\ buf[b].tried # <<>>

\* C18: the remaining byte count of allocate is a multiple of the page size
\* at every step and never goes below zero, and the segment lengths of a
\* successful allocate sum to exactly the page-aligned size.
C18_ExactSum ==
    \A b \in Bufs :
        /\ (Running(b) \/ buf[b].st = "live") =>
            /\ buf[b].size_remaining % PAGE_SIZE = 0
            /\ buf[b].size_remaining >= 0
            /\ buf[b].size_remaining + AcqBytes(b, Len(buf[b].acq)) = PAGE_ALIGN(buf[b].size)
        /\ buf[b].st = "live" =>
            /\ buf[b].size_remaining = 0
            /\ SgBytes(buf[b].sg) = PAGE_ALIGN(buf[b].size)

\* A call has acquired its first segment, of the second class, and a page is
\* still to come for a size that is not a multiple of the page size.
C18_Witness ==
    \E b \in Bufs :
        /\ buf[b].st = "alloc"
        /\ Len(buf[b].acq) = 1
        /\ buf[b].acq[1].order = orders[2]
        /\ buf[b].size_remaining = PAGE_SIZE

\* The orders the next steps of the call or of the free on buffer b pass to
\* order_to_index.
OrdersToIndex(b) ==
    (IF buf[b].st = "alloc" /\ TryIdx(b) <= num_orders THEN {orders[TryIdx(b)]} ELSE {})
    \cup (IF buf[b].st = "err" /\ ~buf[b].shrinker
          THEN {buf[b].pages[j].order : j \in 1..Len(buf[b].pages)} ELSE {})
    \cup (IF buf[b].st \in {"live", "free"} /\ ~buf[b].shrinker
          THEN {get_order(buf[b].sg[j].length) : j \in 1..Len(buf[b].sg)} ELSE {})

\* C19: order_to_index never reaches its BUG(): every order passed to it, by
\* alloc_buffer_page, by the rollback and by the free, is one of orders[].
C19_NoBug ==
    \A b \in Bufs : \A o \in OrdersToIndex(b) :
        /\ order_to_index(o) # 0
        /\ o \in {orders[k] : k \in 1..num_orders}

\* A free is about to pass the orders of two segments of different classes.
C19_Witness ==
    \E b \in Bufs :
        /\ buf[b].st = "free"
        /\ ~buf[b].shrinker
        /\ buf[b].fi = 1
        /\ Cardinality(OrdersToIndex(b)) = 2

\* The place in PoolCounts of the pool of class k of a bank.
Slot(cached, k) == IF cached THEN num_orders + k ELSE k

\* What a turn of the free loop on buffer b has to do with the segment it is at.
FreeTurnEffect(b) ==
    LET e == buf[b].sg[buf[b].fi]
        k == ClassOf(get_order(e.length))
    IN  IF buf[b].shrinker
        THEN /\ PoolCounts(sys_heap') = PoolCounts(sys_heap)
             /\ mem'.free = [mem.free EXCEPT ![e.page] = @ + 1]
        ELSE /\ PoolCounts(sys_heap') =
                    [PoolCounts(sys_heap) EXCEPT ![Slot(buf[b].cached, k)] = @ + 1]
             /\ PoolOcc(Pool(sys_heap', buf[b].cached, k), e.page) = 1
             /\ mem'.free = mem.free

\* C14: the free of a shrinker-originated buffer releases every run to the
\* general allocator and leaves the resident count of every pool as it was;
\* the free of any other buffer adds each run to the pool of the run's order
\* in the bank of the buffer's cacheability and changes no other pool.
C14_FreeFrame ==
    [][\A b \in Bufs :
        /\ (buf[b].st = "live" /\ buf'[b].st = "free") =>
                (PoolCounts(sys_heap') = PoolCounts(sys_heap) /\ mem'.free = mem.free)
        /\ (buf[b].st = "free" /\ buf'[b] # buf[b]) => FreeTurnEffect(b)]_vars

\* The free of a shrinker-originated buffer of two segments of different
\* orders has released the first to the general allocator.
C14_Witness ==
    \E b \in Bufs :
        /\ buf[b].st = "free"
        /\ buf[b].shrinker
        /\ buf[b].fi = 2
        /\ buf[b].sg[1].length > buf[b].sg[2].length
        /\ mem.free[buf[b].sg[1].page] = 1
        /\ InPools(buf[b].sg[1].page) = 0

\* C20, as stated: the value a shrink returns while allocate and free calls
\* run is the resident total of the pools at one instant between the call's
\* start and its return.
C20_Snapshot ==
    \A s \in Shrinkers :
        shr[s].pc = "ret" => shr[s].ret \in sys_heap.seen.all

\* C20, amended: the value a shrink returns is the resident total of the
\* pools at the instants of its inventory pass when no pool operation of
\* another call falls into that pass.
C20_SnapshotQuietPass ==
    \A s \in Shrinkers :
        (shr[s].pc = "ret" /\ Cardinality(sys_heap.seen.inv) = 1) =>
            shr[s].ret \in sys_heap.seen.inv

\* A shrink returns a non-zero total while an allocate call is in flight,
\* after the total has changed since the shrink's start but not during its
\* inventory pass.
C20_Witness ==
    \E s \in Shrinkers : \E b \in Bufs :
        /\ shr[s].pc = "ret"
        /\ Cardinality(sys_heap.seen.inv) = 1
        /\ Cardinality(sys_heap.seen.all) > 1
        /\ shr[s].ret > 0
        /\ buf[b].st \in {"alloc", "table", "err"}

\* The pages of the page-aligned length of the contiguous buffer.
KeptPages == PAGE_ALIGN(contig.size) \div PAGE_SIZE

\* The pages of the run the contiguous heap obtained.
RunPages == DOMAIN contig.released

\* The smallest order whose run covers the length asked for.
CoveringOrder(len) ==
    CHOOSE k \in 0..MaxContigPages :
        /\ PAGE_SIZE * (2 ^ k) >= len
        /\ \A j \in 0..(k - 1) : PAGE_SIZE * (2 ^ j) < len

\* C11: when the contiguous heap's allocate returns a buffer whose length is
\* not a power-of-two number of pages, it obtained one run of 2^order pages
\* with order the smallest that covers the length, the descriptor has one
\* segment of exactly page-align(length) bytes at the run's first page, every
\* page of the run beyond that has been released exactly once and no page of
\* the segment has been released.
C11_ContigTrim ==
    (contig.st = "live" /\ \A k \in 0..MaxContigPages : KeptPages # 2 ^ k) =>
        /\ contig.order = CoveringOrder(contig.size)
        /\ RunPages = 0..((2 ^ contig.order) - 1)
        /\ Len(contig.sg) = 1
        /\ contig.sg[1].page = 0
        /\ contig.sg[1].length = PAGE_ALIGN(contig.size)
        /\ \A j \in RunPages :
            contig.released[j] = IF j >= KeptPages THEN 1 ELSE 0

\* A buffer of two pages and a byte is returned: a run of four pages was
\* obtained, the fourth page has been released and the first three are kept.
C11_Witness ==
    /\ contig.st = "live"
    /\ contig.size = 2 * PAGE_SIZE + 1
    /\ contig.order = 2
    /\ contig.sg = << [page |-> 0, length |-> 3 * PAGE_SIZE] >>
    /\ contig.released[3] = 1
    /\ contig.released[2] = 0

\* C17: when a buffer of the contiguous heap has been freed, and when its
\* allocate returns out of memory after the run was obtained, every one of
\* the 2^order pages of the run has been released exactly once.
C17_ContigConserves ==
    (\/ contig.st = "freed"
     \/ contig.st = "ret" /\ contig.ret = "ENOMEM" /\ RunPages # {}) =>
        /\ RunPages = 0..((2 ^ contig.order) - 1)
        /\ \A j \in RunPages : contig.released[j] = 1

\* A buffer of five pages, cut from a run of eight, has been freed and all
\* eight pages have been released once.
C17_Witness ==
    /\ contig.st = "freed"
    /\ contig.size = 5 * PAGE_SIZE
    /\ contig.order = 3
    /\ \A j \in 0..7 : contig.released[j] = 1

\* The allocate of a buffer of three pages returns out of memory after the
\* run of four was obtained, and all four pages have been released once.
C17_WitnessTableFail ==
    /\ contig.st = "ret"
    /\ contig.ret = "ENOMEM"
    /\ RunPages = 0..3
    /\ KeptPages = 3
    /\ \A j \in 0..3 : contig.released[j] = 1

BankNames == {"uncached", "cached"}

\* C12: when heap construction returns its error, every pool that was
\* created has been destroyed exactly once, no pool was destroyed that was
\* never created, and so no pool is alive.
C12_AllOrNothing ==
    boot.pc = "failed" =>
        \A bank \in BankNames : \A i \in 1..num_orders :
            /\ boot.created[bank][i] <= 1
            /\ boot.destroyed[bank][i] = boot.created[bank][i]

\* Construction has failed at the second pool of the cached bank: the three
\* uncached pools and the first cached pool were created and destroyed once.
C12_Witness ==
    /\ boot.pc = "failed"
    /\ \A i \in 1..num_orders : boot.created["uncached"][i] = 1
    /\ \A i \in 1..num_orders : boot.destroyed["uncached"][i] = 1
    /\ boot.created["cached"] = <<1, 0, 0>>
    /\ boot.destroyed["cached"] = <<1, 0, 0>>

\* Construction has failed at the third pool of the uncached bank.
C12_WitnessUncached ==
    /\ boot.pc = "failed"
    /\ boot.created["uncached"] = <<1, 1, 0>>
    /\ boot.destroyed["uncached"] = <<1, 1, 0>>
    /\ boot.created["cached"] = <<0, 0, 0>>

====
